---- MODULE Spec2Model ----
(***************************************************************************)
(* Model of the cognitive synergy engine of cogpy/nodecog:                 *)
(*   IsolateContext, CognitiveScheduler and CognitiveSynergyEngine         *)
(*   (src/src/cognitive_synergy_engine.h, src/src/cognitive_synergy_engine.cc). *)
(*                                                                         *)
(* Numbers.  sti and lti are C++ doubles.  They are held here in fixed     *)
(* point, in units of 1/Scale, and a product is rounded to the nearest     *)
(* unit, as a double product is rounded to the nearest double.  Only       *)
(* finite values are modelled (no NaN, no infinity).  Memory usage is held *)
(* in MiB and the memory factor in hundredths.                             *)
(*                                                                         *)
(* Objects.  An IsolateContext is a heap object named by its address       *)
(* <<id, k>>: the k-th object constructed with that id (Null is nullptr).  *)
(* Addresses are not reused.  A pointer to a freed object is dangling: a   *)
(* read through it yields any value, a write through it is not observed.   *)
(***************************************************************************)
EXTENDS Integers, Sequences, FiniteSets, TLC

\* ------------------------------------------------------------------ bounds
\* number of IsolateContext objects ever allocated
MaxCtx == 3
\* longest candidate vector
MaxCand == 3
\* number of DecayAttention / UpdateAttention / OnCognitiveTick calls
MaxAttnOps == 2
\* longest recorded run of consecutive round-robin selections
MaxLog == 4
\* fixed-point resolution of sti and lti: one unit is 1/Scale
Scale == 100
\* OnIdle calls and checkpoints of one slice counted before the count saturates
MaxCount == 2

\* ------------------------------------------------------------ input sets
Ids == {"A", "B", "C"}
\* the ids used where sti and lti vary
TwoIds == {"A", "B"}
NoId == "-"
Null == <<NoId, 0>>
Ptrs == Ids \X (1..MaxCtx)
\* values written through SetSTI (in units of 1/Scale)
StiInputs == {-2 * Scale, 0, Scale}
\* values written through SetLTI
LtiInputs == {10 * Scale}
\* memory usage reported by a context, in MiB
MemValues == {0, 25, 200}

\* ------------------------------------------------- program constants
\* double sti_ = 50.0
DefaultSti == 50
\* double lti_ = 50.0
DefaultLti == 50
\* const double decay_rate = 0.99, in hundredths
decay_rate == 99
\* if (context->GetSTI() < 1.0) context->SetSTI(1.0)
StiFloor == 1
\* double max_sti = -1.0
InitialMaxSti == -1
\* 1024.0 * 1024.0 * 100.0 bytes, in MiB
MemoryReference == 100
\* std::max(0.5, ...), in hundredths
MinFactor == 50
\* std::min(1.0, ...), in hundredths
MaxFactor == 100

\* ------------------------------------------------------------------ state
VARIABLES
  attention_based_scheduling, \* CognitiveSynergyConfig (fixed at construction)
  heap,                       \* the IsolateContext objects, by address
  engine_isolates,            \* CognitiveSynergyEngine::isolates_  (id -> address)
  isolates,                   \* CognitiveScheduler::isolates_      (vector of addresses)
  current_index,              \* CognitiveScheduler::current_index_
  attn_ops,                   \* number of decay/update/tick calls made (bounded)
  last,                       \* history: the most recent call, what it returned, whether it found its target
  snap,                       \* history: scheduler state before the most recent registration
  rr_log,                     \* history: results of the consecutive round-robin selections
  rr_start,                   \* history: current_index_ when rr_log began (-1: never moved)
  loop,                       \* CognitiveSynergyEngine::loop_ (NoLoop: nullptr)
  running,                    \* CognitiveSynergyEngine::running_
  current_isolate,            \* CognitiveSynergyEngine::current_isolate_
  handles,                    \* which of the four libuv handles are started
  stop_flag,                  \* the stop request uv_stop leaves with the loop
  pc,                         \* where the thread that called Run() is
  stop_pc,                    \* where the thread that called Stop() is
  slice,                      \* history: the slice of the current iteration and its checkpoints
  idle_runs,                  \* history: number of OnIdle calls (saturating)
  cancel,                     \* history: a Stop() made during an iteration and what followed
  teardown,                   \* the DestroyIsolate call in progress: its position and what it released
  bridge_engine,              \* whether CognitiveNAPIBridge::engine_ holds an engine
  result,                     \* history: what the most recent binding call gave back
  registered,                 \* how many times each handle has been entered into the loop's queue
  overlap,                    \* history: a Run() and a Stop() have been in progress at the same time
  ext                         \* the thread that adjusts attention from outside the loop: its position and the value it read

prog == <<attention_based_scheduling, heap, engine_isolates, isolates, current_index>>
\* the control loop and its history
loop_vars == <<loop, running, current_isolate, handles, registered, stop_flag, pc, stop_pc,
               slice, idle_runs, cancel, overlap>>
\* the binding layer
bridge_vars == <<bridge_engine, result>>
\* what the scheduler and registry operations of the embedder leave alone
outer_vars == <<loop_vars, teardown, bridge_vars, ext>>
vars == <<attention_based_scheduling, heap, engine_isolates, isolates, current_index,
          attn_ops, last, snap, rr_log, rr_start, loop_vars, teardown, bridge_vars, ext>>

\* ---------------------------------------------------------------- helpers
Max(a, b) == IF a >= b THEN a ELSE b
Min(a, b) == IF a <= b THEN a ELSE b

\* n / d rounded to the nearest integer (halves away from zero), d > 0
RoundDiv(n, d) ==
  IF n >= 0 THEN (2 * n + d) \div (2 * d) ELSE -((2 * (-n) + d) \div (2 * d))

\* x * (f / 100) in fixed point
MulPct(x, f) == RoundDiv(x * f, 100)

Live(p) == heap[p].st = "live"
NoCtx == [id |-> NoId, sti |-> 0, lti |-> 0, st |-> "unalloc"]
\* what is left of an object after its destructor ran: only the id it had
Freed(c) == [id |-> c.id, sti |-> 0, lti |-> 0, st |-> "freed"]
\* IsolateContext::IsolateContext
NewCtx(id) == [id |-> id, sti |-> DefaultSti * Scale, lti |-> DefaultLti * Scale, st |-> "live"]

Allocated == {p \in Ptrs : heap[p].st # "unalloc"}
\* the address operator new returns for a context with this id
Alloc(id) == <<id, 1 + Cardinality({p \in Allocated : p[1] = id})>>

Positions(list) == 1..Len(list)

NoCall == [op |-> "none", ret |-> Null, hit |-> FALSE]
Call(op, ret, hit) == [op |-> op, ret |-> ret, hit |-> hit]
NoSnap == [isolates |-> <<>>, index |-> 0]

\* loop_(nullptr)
NoLoop == "nullptr"
\* uv_default_loop()
DefaultLoop == "uv_default_loop"
\* the four handles, none started
NoHandles == [prepare |-> FALSE, check |-> FALSE, timer |-> FALSE, idle |-> FALSE]
NoSlice == [ran |-> Null, checkpoints |-> 0, stray |-> FALSE]
NoTeardown == [step |-> 0, id |-> NoId, context |-> Null, env_freed |-> FALSE, disposed |-> FALSE]
NoResult == [value |-> 0, raised |-> FALSE]
NoExt == [pc |-> "idle", context |-> Null, read |-> 0, ops |-> 0]

\* the history of round-robin selections restarts when the candidate vector changes
RestartLog ==
  /\ rr_log' = <<>>
  /\ rr_start' = IF rr_start = -1 /\ rr_log = <<>> THEN -1 ELSE current_index

\* ------------------------------------------------------------------- Init
Init ==
  /\ attention_based_scheduling \in BOOLEAN
  /\ heap = [p \in Ptrs |-> NoCtx]
  /\ engine_isolates = [i \in Ids |-> Null]
  /\ isolates = <<>>
  /\ current_index = 0
  /\ attn_ops = 0
  /\ last = NoCall
  /\ snap = NoSnap
  /\ rr_log = <<>>
  /\ rr_start = -1
  /\ loop = NoLoop
  /\ running = FALSE
  /\ current_isolate = Null
  /\ handles = NoHandles
  /\ stop_flag = FALSE
  /\ pc = "out"
  /\ stop_pc = "out"
  /\ slice = NoSlice
  /\ idle_runs = 0
  /\ cancel = "none"
  /\ teardown = NoTeardown
  /\ bridge_engine = FALSE
  /\ result = NoResult
  /\ registered = [h \in DOMAIN NoHandles |-> 0]
  /\ overlap = FALSE
  /\ ext = NoExt

\* ------------------------------------------------------ CognitiveScheduler
\* isolates_.push_back(context)
Pushed(list, p) == Append(list, p)

RegisterIsolateBody(p) == isolates' = Pushed(isolates, p)

\* mutant: the comparison inverted (ctx->id() != id)
IdEquals_inverted(ctxid, id) == ctxid # id

\* ctx->id() == id
IdEquals(ctxid, id) == ctxid = id

\* the comparison at each entry of the vector; the read through a dangling entry
\* yields any id, so there the comparison goes either way
IdReads(list, id) ==
  {m \in [Positions(list) -> BOOLEAN] :
     \A i \in Positions(list) : Live(list[i]) => (m[i] = IdEquals(heap[list[i]].id, id))}

RECURSIVE RemoveIf(_, _, _)
\* the entries of list whose comparison m is FALSE, in order, from position i on
RemoveIf(list, m, i) ==
  IF i > Len(list) THEN <<>>
  ELSE IF m[i] THEN RemoveIf(list, m, i + 1)
       ELSE <<list[i]>> \o RemoveIf(list, m, i + 1)

\* mutant: the erase forgotten, the vector keeps its entries
Erased_nothing(list, m) == list

\* isolates_.erase(std::remove_if(...), isolates_.end())
Erased(list, m) == RemoveIf(list, m, 1)

UnregisterIsolateBody(m) == isolates' = Erased(isolates, m)

\* mutant: the cursor is not advanced
NextIndex_stuck(i, n) == i % n

\* mutant: the cursor is advanced without wrapping
NextIndex_unwrapped(i, n) == i + 1

\* (current_index_ + 1) % isolates_.size()
NextIndex(i, n) == (i + 1) % n

\* mutant: the scan reads lti where it reads sti
StiReads_lti(list) ==
  {v \in [Positions(list) -> StiInputs \cup {heap[list[i]].lti : i \in Positions(list)}] :
     \A i \in Positions(list) : Live(list[i]) => v[i] = heap[list[i]].lti}

\* context->GetSTI() for each entry of the vector; a dangling entry yields any value
StiReads(list) ==
  {v \in [Positions(list) -> StiInputs \cup {heap[list[i]].sti : i \in Positions(list)}] :
     \A i \in Positions(list) : Live(list[i]) => v[i] = heap[list[i]].sti}

\* if (sti > max_sti)
Exceeds(sti, max_sti) == sti > max_sti

RECURSIVE AttnScan(_, _, _, _, _)
\* for (auto* context : isolates_) { if (sti > max_sti) { max_sti = sti; selected = context; } }
AttnScan(list, v, i, max_sti, selected) ==
  IF i > Len(list) THEN selected
  ELSE IF Exceeds(v[i], max_sti) THEN AttnScan(list, v, i + 1, v[i], list[i])
       ELSE AttnScan(list, v, i + 1, max_sti, selected)

\* the attention branch of SelectNextIsolate under the reads v
SelectAttention(list, v) == AttnScan(list, v, 1, InitialMaxSti * Scale, Null)

\* isolates_[k] (vectors count from 0); a read past the end yields no context of the model
Entry(list, k) == IF k < Len(list) THEN list[k + 1] ELSE Null

\* the round-robin branch: the entry at the advanced cursor
SelectRoundRobin(list, index) == Entry(list, NextIndex(index, Len(list)))

SelectNextIsolateBody ==
  /\ snap' = NoSnap
  /\ UNCHANGED <<attention_based_scheduling, heap, engine_isolates, isolates, attn_ops>>
  /\ IF isolates = <<>>
       THEN /\ last' = Call("SelectNextIsolate", Null, FALSE)
            /\ UNCHANGED current_index
       ELSE IF ~attention_based_scheduling
         THEN /\ current_index' = NextIndex(current_index, Len(isolates))
              /\ last' = Call("SelectNextIsolate", SelectRoundRobin(isolates, current_index), TRUE)
         ELSE /\ \E v \in StiReads(isolates) :
                   last' = Call("SelectNextIsolate", SelectAttention(isolates, v),
                                SelectAttention(isolates, v) # Null)
              /\ UNCHANGED current_index

\* a call of SelectNextIsolate whose result is not recorded in rr_log
SelectNextIsolate ==
  /\ SelectNextIsolateBody
  /\ UNCHANGED outer_vars
  /\ rr_log' = <<>>
  /\ rr_start' = IF attention_based_scheduling \/ isolates = <<>> THEN rr_start ELSE current_index'

\* a call of SelectNextIsolate in round-robin mode on a non-empty vector: the recorded
\* run of selections grows by the result, or starts again when it is full
SelectNextIsolateLogged ==
  /\ ~attention_based_scheduling
  /\ isolates # <<>>
  /\ SelectNextIsolateBody
  /\ UNCHANGED outer_vars
  /\ IF Len(rr_log) < MaxLog
       THEN /\ rr_log' = Append(rr_log, last'.ret)
            /\ rr_start' = IF rr_start = -1 /\ rr_log = <<>> THEN -1
                           ELSE IF rr_log = <<>> THEN current_index ELSE rr_start
       ELSE /\ rr_log' = <<last'.ret>>
            /\ rr_start' = current_index

\* mutant: no floor
ClampFloor_none(sti) == sti

\* if (context->GetSTI() < 1.0) context->SetSTI(1.0)
ClampFloor(sti) == IF sti < StiFloor * Scale THEN StiFloor * Scale ELSE sti

\* mutant: a rate above 1 (1.01 for 0.99)
Decayed_growing(sti) == ClampFloor(MulPct(sti, 200 - decay_rate))

\* one pass of the loop body of DecayAttention
Decayed(sti) == ClampFloor(MulPct(sti, decay_rate))

RECURSIVE DecayFrom(_, _, _)
\* for (auto* context : isolates_), from entry i on; a write through a dangling entry is not observed
DecayFrom(h, list, i) ==
  IF i > Len(list) THEN h
  ELSE IF h[list[i]].st = "live"
         THEN DecayFrom([h EXCEPT ![list[i]].sti = Decayed(@)], list, i + 1)
         ELSE DecayFrom(h, list, i + 1)

\* 1.0 - memory / (1024.0 * 1024.0 * 100.0), clamped to [0.5, 1.0], in hundredths
memory_factor(memory) ==
  Max(MinFactor, Min(MaxFactor, 100 - RoundDiv(memory * 100, MemoryReference)))

\* current_sti * memory_factor
Adjusted(sti, memory) == MulPct(sti, memory_factor(memory))

RECURSIVE UpdateFrom(_, _, _, _)
\* for (auto* context : isolates_), from entry i on, mem[i] being GetMemoryUsage() of entry i
UpdateFrom(h, list, mem, i) ==
  IF i > Len(list) THEN h
  ELSE IF h[list[i]].st = "live"
         THEN UpdateFrom([h EXCEPT ![list[i]].sti = Adjusted(@, mem[i])], list, mem, i + 1)
         ELSE UpdateFrom(h, list, mem, i + 1)

AttnFrame ==
  /\ attn_ops < MaxAttnOps
  /\ attn_ops' = attn_ops + 1
  /\ snap' = NoSnap
  /\ UNCHANGED <<attention_based_scheduling, engine_isolates, isolates, current_index,
                 rr_log, rr_start>>

DecayAttention ==
  /\ AttnFrame
  /\ UNCHANGED outer_vars
  /\ heap' = DecayFrom(heap, isolates, 1)
  /\ last' = Call("DecayAttention", Null, TRUE)

UpdateAttention ==
  /\ AttnFrame
  /\ UNCHANGED outer_vars
  /\ \E mem \in [Positions(isolates) -> MemValues] : heap' = UpdateFrom(heap, isolates, mem, 1)
  /\ last' = Call("UpdateAttention", Null, TRUE)

\* scheduler()->RegisterIsolate(GetIsolate(id)), called by the embedder
RegisterIsolate(id) ==
  /\ engine_isolates[id] # Null
  /\ Len(isolates) < MaxCand
  /\ RegisterIsolateBody(engine_isolates[id])
  /\ snap' = [isolates |-> isolates, index |-> current_index]
  /\ last' = Call("RegisterIsolate", engine_isolates[id], TRUE)
  /\ UNCHANGED <<attention_based_scheduling, heap, engine_isolates, current_index, attn_ops>>
  /\ UNCHANGED outer_vars
  /\ RestartLog

\* the context whose registration this call follows immediately, if it has this id
Undoes(id) ==
  IF last.op \in {"RegisterIsolate", "CreateIsolate"} /\ last.ret # Null /\ last.ret[1] = id
    THEN last.ret ELSE Null

\* scheduler()->UnregisterIsolate(id), called by the embedder
UnregisterIsolate(id) ==
  /\ \E m \in IdReads(isolates, id) :
       /\ UnregisterIsolateBody(m)
       /\ last' = Call("UnregisterIsolate", Undoes(id), \E i \in Positions(isolates) : m[i])
  /\ snap' = IF Undoes(id) # Null THEN snap ELSE NoSnap
  /\ UNCHANGED <<attention_based_scheduling, heap, engine_isolates, current_index, attn_ops>>
  /\ UNCHANGED outer_vars
  /\ RestartLog

\* ------------------------------------------------- CognitiveSynergyEngine
\* engine->scheduler_->DecayAttention(); engine->scheduler_->UpdateAttention();
OnCognitiveTickBody ==
  /\ AttnFrame
  /\ \E mem \in [Positions(isolates) -> MemValues] :
       heap' = UpdateFrom(DecayFrom(heap, isolates, 1), isolates, mem, 1)
  /\ last' = Call("OnCognitiveTick", Null, TRUE)

\* the timer callback, at whatever point of the loop the timer expires
OnCognitiveTick ==
  /\ OnCognitiveTickBody
  /\ UNCHANGED outer_vars

\* isolates_[id] = std::move(context_ptr): the object the entry owned before is destroyed
Stored(h, old, p, id) ==
  IF old = Null THEN [h EXCEPT ![p] = NewCtx(id)]
  ELSE [h EXCEPT ![p] = NewCtx(id), ![old] = Freed(h[old])]

\* ok: whether v8::Isolate::New returned an isolate
CreateIsolateBody(id, ok) ==
  /\ UNCHANGED <<attention_based_scheduling, attn_ops>>
  /\ IF ~ok
       THEN /\ last' = Call("CreateIsolate", Null, FALSE)
            /\ snap' = NoSnap
            /\ UNCHANGED <<heap, engine_isolates, isolates, current_index, rr_log, rr_start>>
       ELSE /\ Cardinality(Allocated) < MaxCtx
            /\ Len(isolates) < MaxCand
            /\ heap' = Stored(heap, engine_isolates[id], Alloc(id), id)
            /\ engine_isolates' = [engine_isolates EXCEPT ![id] = Alloc(id)]
            /\ RegisterIsolateBody(Alloc(id))
            /\ snap' = [isolates |-> isolates, index |-> current_index]
            /\ last' = Call("CreateIsolate", Alloc(id), TRUE)
            /\ UNCHANGED current_index
            /\ RestartLog

\* engine.CreateIsolate(id), called by the embedder
CreateIsolate(id, ok) ==
  /\ CreateIsolateBody(id, ok)
  /\ UNCHANGED outer_vars

DestroyIsolateBody(id) ==
  /\ UNCHANGED <<attention_based_scheduling, attn_ops, current_index>>
  /\ snap' = NoSnap
  /\ IF engine_isolates[id] = Null
       THEN /\ last' = Call("DestroyIsolate", Null, FALSE)
            /\ UNCHANGED <<heap, engine_isolates, isolates, rr_log, rr_start>>
       ELSE /\ \E m \in IdReads(isolates, id) : UnregisterIsolateBody(m)
            /\ heap' = [heap EXCEPT ![engine_isolates[id]] = Freed(@)]
            /\ engine_isolates' = [engine_isolates EXCEPT ![id] = Null]
            /\ last' = Call("DestroyIsolate", engine_isolates[id], TRUE)
            /\ RestartLog

\* engine.DestroyIsolate(id), called by the embedder
DestroyIsolate(id) ==
  /\ DestroyIsolateBody(id)
  /\ UNCHANGED outer_vars

\* context->SetSTI(sti) on the context GetIsolate(id) returned
SetSTIBody(id, sti) ==
  /\ engine_isolates[id] # Null
  /\ heap' = [heap EXCEPT ![engine_isolates[id]].sti = sti]
  /\ last' = Call("SetSTI", Null, TRUE)
  /\ snap' = NoSnap
  /\ UNCHANGED <<attention_based_scheduling, engine_isolates, isolates, current_index,
                 attn_ops, rr_log, rr_start>>

\* GetIsolate(id)->SetSTI(sti), as the embedder does
SetSTI(id, sti) ==
  /\ SetSTIBody(id, sti)
  /\ UNCHANGED outer_vars

\* context->SetLTI(lti) on the context GetIsolate(id) returned
SetLTIBody(id, lti) ==
  /\ engine_isolates[id] # Null
  /\ heap' = [heap EXCEPT ![engine_isolates[id]].lti = lti]
  /\ last' = Call("SetLTI", Null, TRUE)
  /\ snap' = NoSnap
  /\ UNCHANGED <<attention_based_scheduling, engine_isolates, isolates, current_index,
                 attn_ops, rr_log, rr_start>>

\* GetIsolate(id)->SetLTI(lti)
SetLTI(id, lti) ==
  /\ SetLTIBody(id, lti)
  /\ UNCHANGED outer_vars

\* -------------------------------------------------------- the control loop
\* The loop driver is libuv's uv_run(loop, UV_RUN_DEFAULT): while the loop is alive and
\* no stop is requested, one iteration runs the expired timers, the idle handles, the
\* prepare handles, the I/O poll and the check handles, in that order; on leaving, the
\* stop request is cleared.  uv_stop leaves the stop request with the loop.  The timer
\* repeats every cognitive_tick_ms = 5 ms, so the poll never waits for ever.
\* A step through a null loop_ ends the process (pc = "crashed").

InIteration == pc \in {"timers", "idle", "prepare", "poll", "check"}

\* uv_prepare_start, uv_check_start, uv_timer_start, uv_idle_start
AllHandles == [prepare |-> TRUE, check |-> TRUE, timer |-> TRUE, idle |-> TRUE]

\* uv_loop_alive(loop_): a started handle keeps the loop alive
LoopAlive == handles.prepare \/ handles.check \/ handles.timer \/ handles.idle

\* what a step of the loop thread or of the lifecycle leaves alone
LifecycleFrame ==
  /\ snap' = NoSnap
  /\ UNCHANGED <<prog, attn_ops, rr_log, rr_start, teardown, bridge_vars, ext>>

\* uv_prepare_init, uv_check_init, uv_timer_init, uv_idle_init followed by the four
\* uv_*_start: the init clears the handle's flags, so the start enters the handle into
\* the loop's queue whether or not it is there already
InitializeLibuvHooks(r) == [h \in DOMAIN r |-> Min(r[h] + 1, MaxCount)]

\* Initialize(): loop_ = uv_default_loop(); InitializeLibuvHooks()
Initialize ==
  /\ pc # "crashed"
  /\ loop' = DefaultLoop
  /\ handles' = AllHandles
  /\ registered' = InitializeLibuvHooks(registered)
  /\ last' = Call("Initialize", Null, TRUE)
  /\ LifecycleFrame
  /\ UNCHANGED <<running, overlap, current_isolate, stop_flag, pc, stop_pc, slice,
                 idle_runs, cancel>>

\* Start(): running_ = true
Start ==
  /\ pc # "crashed"
  /\ running' = TRUE
  /\ overlap' = FALSE
  /\ last' = Call("Start", Null, TRUE)
  /\ LifecycleFrame
  /\ UNCHANGED <<loop, current_isolate, handles, registered, stop_flag, pc, stop_pc, slice,
                 idle_runs, cancel>>

\* Run(): Start(); the call of uv_run comes next
Run ==
  /\ pc = "out"
  /\ running' = TRUE
  /\ overlap' = (stop_pc = "called")
  /\ pc' = "started"
  /\ last' = Call("Run", Null, TRUE)
  /\ LifecycleFrame
  /\ UNCHANGED <<loop, current_isolate, handles, registered, stop_flag, stop_pc, slice,
                 idle_runs, cancel>>

\* return uv_run(loop_, UV_RUN_DEFAULT): uv_run is entered
EnterLoop ==
  /\ pc = "started"
  /\ pc' = IF loop = NoLoop THEN "crashed" ELSE "top"
  /\ last' = Call("EnterLoop", Null, loop # NoLoop)
  /\ LifecycleFrame
  /\ UNCHANGED <<loop, running, overlap, current_isolate, handles, registered, stop_flag, stop_pc, slice,
                 idle_runs, cancel>>

\* uv_run: while (r != 0 && loop->stop_flag == 0)
LoopContinues(alive, stop) == alive /\ ~stop

\* the loop condition: another iteration begins, or uv_run clears the stop request and
\* Run() returns
LoopTop ==
  /\ pc = "top"
  /\ IF LoopContinues(LoopAlive, stop_flag)
       THEN /\ pc' = "timers"
            /\ cancel' = IF cancel = "requested" THEN "overrun" ELSE cancel
            /\ UNCHANGED stop_flag
       ELSE /\ pc' = "out"
            /\ stop_flag' = FALSE
            /\ cancel' = IF cancel = "requested" THEN "none" ELSE cancel
  /\ last' = Call("LoopTop", Null, pc' = "timers")
  /\ LifecycleFrame
  /\ UNCHANGED <<loop, running, overlap, current_isolate, handles, registered, stop_pc, slice, idle_runs>>

\* what a hook of the loop leaves alone
HookFrame == UNCHANGED <<loop, running, overlap, stop_flag, stop_pc, cancel, teardown,
                         bridge_vars, ext>>

\* where the loop stands after the hooks of handle h ran.  A handle entered into its
\* queue more than once has left the queue malformed: the walk may reach the hook again.
AfterHooks(h, next) == IF registered[h] > 1 THEN {next, pc} ELSE {next}

\* the timer has expired: OnCognitiveTick
TimerExpired ==
  /\ pc = "timers"
  /\ handles.timer
  /\ OnCognitiveTickBody
  /\ pc' \in AfterHooks("timer", "idle")
  /\ HookFrame
  /\ UNCHANGED <<current_isolate, handles, registered, slice, idle_runs>>

\* the timer has not expired in this iteration
TimerPending ==
  /\ pc = "timers"
  /\ pc' = "idle"
  /\ last' = Call("TimerPending", Null, FALSE)
  /\ snap' = NoSnap
  /\ UNCHANGED <<prog, attn_ops, rr_log, rr_start>>
  /\ HookFrame
  /\ UNCHANGED <<current_isolate, handles, registered, slice, idle_runs>>

\* uv_idle_stop(handle)
IdleStop(h) == [h EXCEPT !.idle = FALSE]

\* the idle phase: OnIdle when the idle handle is started, nothing otherwise
OnIdle ==
  /\ pc = "idle"
  /\ IF handles.idle
       THEN /\ handles' = IdleStop(handles)
            /\ registered' = [registered EXCEPT !.idle = 0]
            /\ idle_runs' = Min(idle_runs + 1, MaxCount)
            /\ last' = Call("OnIdle", Null, TRUE)
       ELSE /\ UNCHANGED <<handles, registered, idle_runs>>
            /\ last' = Call("OnIdle", Null, FALSE)
  /\ pc' \in AfterHooks("idle", "prepare")
  /\ snap' = NoSnap
  /\ UNCHANGED <<prog, attn_ops, rr_log, rr_start>>
  /\ HookFrame
  /\ UNCHANGED <<current_isolate, slice>>

\* a member call through the pointer p.  Through a destroyed context the behaviour is
\* undefined: the call may run as if the context were there, may read isolate_ as null and
\* return at once, or may end the process.
CallOutcomes(p) == IF Live(p) THEN {"done"} ELSE {"done", "returned", "crashed"}

\* engine->current_isolate_ = engine->scheduler_->SelectNextIsolate()
PreparedCurrent(selected, old) == selected

\* OnPrepare: select, and if a context was selected, ExecuteTasks on it
OnPrepare ==
  /\ pc = "prepare"
  /\ SelectNextIsolateBody
  /\ rr_log' = <<>>
  /\ rr_start' = IF attention_based_scheduling \/ isolates = <<>> THEN rr_start
                 ELSE current_index'
  /\ current_isolate' = PreparedCurrent(last'.ret, current_isolate)
  /\ IF last'.ret = Null
       THEN /\ slice' = NoSlice
            /\ pc' \in AfterHooks("prepare", "poll")
       ELSE \E outcome \in CallOutcomes(last'.ret) :
              /\ slice' = [NoSlice EXCEPT !.ran = IF outcome = "done" THEN last'.ret ELSE Null]
              /\ pc' \in IF outcome = "crashed" THEN {"crashed"}
                          ELSE AfterHooks("prepare", "poll")
  /\ HookFrame
  /\ UNCHANGED <<handles, registered, idle_runs>>

\* uv__io_poll may wait for I/O or the timer unless a stop is requested or the idle
\* handle is started (uv_backend_timeout is then 0)
PollMayBlock(stop, h) == ~stop /\ ~h.idle

\* uv__io_poll returns, at the latest when the timer is due
Poll ==
  /\ pc = "poll"
  /\ pc' = "check"
  /\ last' = Call("Poll", Null, PollMayBlock(stop_flag, handles))
  /\ snap' = NoSnap
  /\ UNCHANGED <<prog, attn_ops, rr_log, rr_start>>
  /\ HookFrame
  /\ UNCHANGED <<current_isolate, handles, registered, slice, idle_runs>>

\* the checkpoints of the iteration after PerformMicrotaskCheckpoint on context p
Checkpointed(s, p) ==
  IF p = s.ran THEN [s EXCEPT !.checkpoints = Min(@ + 1, MaxCount)]
  ELSE [s EXCEPT !.stray = TRUE]

\* OnCheck: if (engine->current_isolate_) current_isolate_->PerformMicrotaskCheckpoint()
OnCheck ==
  /\ pc = "check"
  /\ IF current_isolate = Null
       THEN /\ UNCHANGED slice
            /\ pc' \in AfterHooks("check", "top")
       ELSE \E outcome \in CallOutcomes(current_isolate) :
              /\ slice' = IF outcome = "done" THEN Checkpointed(slice, current_isolate)
                           ELSE slice
              /\ pc' \in IF outcome = "crashed" THEN {"crashed"}
                          ELSE AfterHooks("check", "top")
  /\ last' = Call("OnCheck", current_isolate, current_isolate # Null)
  /\ snap' = NoSnap
  /\ UNCHANGED <<prog, attn_ops, rr_log, rr_start>>
  /\ HookFrame
  /\ UNCHANGED <<current_isolate, handles, registered, idle_runs>>

\* mutant: Stop() also forgets the current context
Stop_clears_current ==
  /\ pc # "crashed"
  /\ stop_pc = "out"
  /\ stop_pc' = "called"
  /\ running' = FALSE
  /\ overlap' = (overlap \/ pc # "out")
  /\ current_isolate' = Null
  /\ last' = Call("Stop", Null, TRUE)
  /\ LifecycleFrame
  /\ UNCHANGED <<loop, handles, registered, stop_flag, pc, slice, idle_runs, cancel>>

\* Stop(), first statement: running_ = false
Stop ==
  /\ pc # "crashed"
  /\ stop_pc = "out"
  /\ stop_pc' = "called"
  /\ running' = FALSE
  /\ overlap' = (overlap \/ pc # "out")
  /\ last' = Call("Stop", Null, TRUE)
  /\ LifecycleFrame
  /\ UNCHANGED <<loop, current_isolate, handles, registered, stop_flag, pc, slice,
                 idle_runs, cancel>>

\* if (uv_loop_alive(loop_)) uv_stop(loop_)
StopRequest(alive, flag) == IF alive THEN TRUE ELSE flag

\* Stop(), second statement; Stop() returns
StopLoop ==
  /\ pc # "crashed"
  /\ stop_pc = "called"
  /\ stop_pc' = "out"
  /\ IF loop = NoLoop
       THEN /\ pc' = "crashed"
            /\ UNCHANGED <<stop_flag, cancel>>
       ELSE /\ stop_flag' = StopRequest(LoopAlive, stop_flag)
            /\ cancel' = IF InIteration /\ cancel = "none" THEN "requested" ELSE cancel
            /\ UNCHANGED pc
  /\ last' = Call("Stop", Null, loop # NoLoop)
  /\ LifecycleFrame
  /\ UNCHANGED <<loop, running, overlap, current_isolate, handles, registered, slice, idle_runs>>

\* CreateIsolate and DestroyIsolate called while the loop may be running
InterleavedCreateIsolate(id, ok) == pc # "crashed" /\ CreateIsolate(id, ok)

InterleavedDestroyIsolate(id) == pc # "crashed" /\ DestroyIsolate(id)

\* ------------------------------------------- DestroyIsolate, statement by statement
\* mutant: the environment and the isolate are released before the context is unregistered
DestroySteps_release_first == <<"FreeEnvironment", "Dispose", "UnregisterIsolate", "erase">>

\* the statements of DestroyIsolate that follow the lookup, in their order
DestroySteps == <<"UnregisterIsolate", "FreeEnvironment", "Dispose", "erase">>

\* no DestroyIsolate call is in progress on the calling thread
BetweenCalls == teardown.step = 0

\* auto it = isolates_.find(id); if (it == isolates_.end()) return; context = it->second.get()
BeginDestroy(id) ==
  /\ BetweenCalls
  /\ IF engine_isolates[id] = Null
       THEN /\ last' = Call("DestroyIsolate", Null, FALSE)
            /\ UNCHANGED teardown
       ELSE /\ last' = Call("DestroyIsolate", engine_isolates[id], TRUE)
            /\ teardown' = [NoTeardown EXCEPT !.step = 1, !.id = id,
                                              !.context = engine_isolates[id]]
  /\ snap' = NoSnap
  /\ UNCHANGED <<prog, attn_ops, rr_log, rr_start, loop_vars, bridge_vars, ext>>

\* the next statement of the DestroyIsolate call in progress
DestroyStep ==
  /\ teardown.step \in 1..Len(DestroySteps)
  /\ LET stmt == DestroySteps[teardown.step]
         next == teardown.step + 1
     IN  /\ stmt = "UnregisterIsolate" =>
               /\ \E m \in IdReads(isolates, teardown.id) : UnregisterIsolateBody(m)
               /\ teardown' = [teardown EXCEPT !.step = next]
               /\ UNCHANGED <<heap, engine_isolates>>
         /\ stmt = "FreeEnvironment" =>
               /\ teardown' = [teardown EXCEPT !.step = next, !.env_freed = TRUE]
               /\ UNCHANGED <<heap, engine_isolates, isolates>>
         /\ stmt = "Dispose" =>
               /\ teardown' = [teardown EXCEPT !.step = next, !.disposed = TRUE]
               /\ UNCHANGED <<heap, engine_isolates, isolates>>
         /\ stmt = "erase" =>
               /\ heap' = [heap EXCEPT ![teardown.context] = Freed(@)]
               /\ engine_isolates' = [engine_isolates EXCEPT ![teardown.id] = Null]
               /\ teardown' = NoTeardown
               /\ UNCHANGED isolates
  /\ last' = Call("DestroyIsolate", teardown.context, TRUE)
  /\ snap' = NoSnap
  /\ UNCHANGED <<attention_based_scheduling, current_index, attn_ops, loop_vars, bridge_vars, ext>>
  /\ RestartLog

\* the calls the thread makes between two DestroyIsolate calls
CallCreateIsolate(id, ok) == BetweenCalls /\ CreateIsolate(id, ok)

CallRegisterIsolate(id) == BetweenCalls /\ RegisterIsolate(id)

CallSelectNextIsolate == BetweenCalls /\ SelectNextIsolate

\* ------------------------------------------------------ CognitiveNAPIBridge
\* Every function of the binding layer throws "Engine not initialized" while engine_ is
\* null.  The calls modelled pass their arguments (a call without them throws too).
Raised == [value |-> 0, raised |-> TRUE]
Returned(v) == [value |-> v, raised |-> FALSE]

\* engine_ = std::make_unique<CognitiveSynergyEngine>(config); engine_->Initialize():
\* a new engine, the one held before destroyed with its contexts
CreateEngine ==
  /\ bridge_engine' = TRUE
  /\ result' = Returned(1)
  /\ heap' = [p \in Ptrs |-> NoCtx]
  /\ engine_isolates' = [i \in Ids |-> Null]
  /\ isolates' = <<>>
  /\ current_index' = 0
  /\ loop' = DefaultLoop
  /\ handles' = AllHandles
  /\ registered' = InitializeLibuvHooks([h \in DOMAIN NoHandles |-> 0])
  /\ running' = FALSE
  /\ overlap' = FALSE
  /\ current_isolate' = Null
  /\ last' = Call("CreateEngine", Null, TRUE)
  /\ snap' = NoSnap
  /\ rr_log' = <<>>
  /\ rr_start' = -1
  /\ UNCHANGED <<attention_based_scheduling, attn_ops, stop_flag, pc, stop_pc, slice,
                 idle_runs, cancel, teardown, ext>>

\* engine_.reset()
DestroyEngine ==
  /\ bridge_engine' = FALSE
  /\ result' = Returned(1)
  /\ heap' = [p \in Ptrs |-> NoCtx]
  /\ engine_isolates' = [i \in Ids |-> Null]
  /\ isolates' = <<>>
  /\ current_index' = 0
  /\ loop' = NoLoop
  /\ handles' = NoHandles
  /\ registered' = [h \in DOMAIN NoHandles |-> 0]
  /\ running' = FALSE
  /\ overlap' = FALSE
  /\ current_isolate' = Null
  /\ last' = Call("DestroyEngine", Null, bridge_engine)
  /\ snap' = NoSnap
  /\ rr_log' = <<>>
  /\ rr_start' = -1
  /\ UNCHANGED <<attention_based_scheduling, attn_ops, stop_flag, pc, stop_pc, slice,
                 idle_runs, cancel, teardown, ext>>

\* if (!engine_) { napi_throw_error(...); return nullptr; }
Throws(op) ==
  /\ ~bridge_engine
  /\ result' = Raised
  /\ last' = Call(op, Null, FALSE)
  /\ snap' = NoSnap
  /\ UNCHANGED <<prog, attn_ops, rr_log, rr_start, loop_vars, teardown, bridge_engine, ext>>

\* a call that reads: nothing of the engine changes
Reads(op, context, v) ==
  /\ bridge_engine
  /\ result' = Returned(v)
  /\ last' = Call(op, context, context # Null)
  /\ snap' = NoSnap
  /\ UNCHANGED <<prog, attn_ops, rr_log, rr_start, loop_vars, teardown, bridge_engine, ext>>

\* engine_->GetIsolate(id): the registry's context, nullptr when the id is not in it
GetIsolate(id) == engine_isolates[id]

\* mutant: the default attention for a missing context
ValueOf_default(context, v) == IF context # Null THEN v ELSE DefaultSti * Scale

\* if (context) napi_create_double(env, context->Get...(), &result)
\* else napi_create_double(env, 0.0, &result)
ValueOf(context, v) == IF context # Null THEN v ELSE 0

BridgeCreateIsolate(id, ok) ==
  \/ Throws("CreateIsolate")
  \/ /\ bridge_engine
     /\ CreateIsolateBody(id, ok)
     /\ result' = Returned(IF last'.ret # Null THEN 1 ELSE 0)
     /\ UNCHANGED <<loop_vars, teardown, bridge_engine, ext>>

BridgeDestroyIsolate(id) ==
  \/ Throws("DestroyIsolate")
  \/ /\ bridge_engine
     /\ DestroyIsolateBody(id)
     /\ result' = Returned(1)
     /\ UNCHANGED <<loop_vars, teardown, bridge_engine, ext>>

BridgeSetSTI(id, sti) ==
  \/ Throws("SetSTI")
  \/ /\ GetIsolate(id) # Null
     /\ bridge_engine
     /\ SetSTIBody(id, sti)
     /\ result' = Returned(1)
     /\ UNCHANGED <<loop_vars, teardown, bridge_engine, ext>>
  \/ /\ GetIsolate(id) = Null
     /\ Reads("SetSTI", Null, 1)

BridgeSetLTI(id, lti) ==
  \/ Throws("SetLTI")
  \/ /\ GetIsolate(id) # Null
     /\ bridge_engine
     /\ SetLTIBody(id, lti)
     /\ result' = Returned(1)
     /\ UNCHANGED <<loop_vars, teardown, bridge_engine, ext>>
  \/ /\ GetIsolate(id) = Null
     /\ Reads("SetLTI", Null, 1)

BridgeGetSTI(id) ==
  \/ Throws("GetSTI")
  \/ Reads("GetSTI", GetIsolate(id), ValueOf(GetIsolate(id), heap[GetIsolate(id)].sti))

BridgeGetLTI(id) ==
  \/ Throws("GetLTI")
  \/ Reads("GetLTI", GetIsolate(id), ValueOf(GetIsolate(id), heap[GetIsolate(id)].lti))

\* context->GetMemoryUsage(), in MiB, is whatever the isolate's heap statistics say
BridgeGetMemoryUsage(id) ==
  \/ Throws("GetMemoryUsage")
  \/ \E memory \in MemValues :
       Reads("GetMemoryUsage", GetIsolate(id), ValueOf(GetIsolate(id), memory))

\* --------------------------------------------------------- specifications
\* every operation, on every id
Next ==
  \/ \E id \in Ids, ok \in BOOLEAN : CreateIsolate(id, ok)
  \/ \E id \in Ids : DestroyIsolate(id)
  \/ \E id \in Ids : RegisterIsolate(id)
  \/ \E id \in Ids : UnregisterIsolate(id)
  \/ SelectNextIsolate
  \/ DecayAttention
  \/ UpdateAttention
  \/ OnCognitiveTick
  \/ \E id \in Ids, sti \in StiInputs : SetSTI(id, sti)
  \/ \E id \in Ids, lti \in LtiInputs : SetLTI(id, lti)

Spec == Init /\ [][Next]_vars

\* the registry, the candidate vector and selection, in both modes, sti and lti
\* written by the embedder only
NextRegistry ==
  \/ \E id \in TwoIds, ok \in BOOLEAN : CreateIsolate(id, ok)
  \/ \E id \in TwoIds : DestroyIsolate(id)
  \/ \E id \in TwoIds : RegisterIsolate(id)
  \/ \E id \in Ids : UnregisterIsolate(id)
  \/ SelectNextIsolate
  \/ \E id \in TwoIds, sti \in StiInputs : SetSTI(id, sti)
  \/ \E id \in TwoIds, lti \in LtiInputs : SetLTI(id, lti)

SpecRegistry == Init /\ [][NextRegistry]_vars

\* round-robin scheduling of up to three contexts; sti and lti are not read in this mode
NextRoundRobin ==
  \/ \E id \in Ids, ok \in BOOLEAN : CreateIsolate(id, ok)
  \/ \E id \in Ids : DestroyIsolate(id)
  \/ \E id \in Ids : RegisterIsolate(id)
  \/ \E id \in Ids : UnregisterIsolate(id)
  \/ SelectNextIsolateLogged

\* config.attention_based_scheduling = false
InitRoundRobin == Init /\ attention_based_scheduling = FALSE

SpecRoundRobin == InitRoundRobin /\ [][NextRoundRobin]_vars

\* the attention economy: decay, update and the timer tick over a changing candidate vector
NextAttention ==
  \/ \E id \in TwoIds, ok \in BOOLEAN : CreateIsolate(id, ok)
  \/ \E id \in TwoIds : DestroyIsolate(id)
  \/ \E id \in TwoIds : RegisterIsolate(id)
  \/ DecayAttention
  \/ UpdateAttention
  \/ OnCognitiveTick
  \/ \E id \in TwoIds, sti \in StiInputs : SetSTI(id, sti)

\* config.attention_based_scheduling = true, the default
InitAttention == Init /\ attention_based_scheduling = TRUE

SpecAttention == InitAttention /\ [][NextAttention]_vars

\* ------------------------------- the embedder's thread beside the runner thread
\* reasoning->SetSTI(reasoning->GetSTI() + 20): the amount added
Boost == 20

\* what the statement leaves alone
ExtFrame ==
  /\ snap' = NoSnap
  /\ UNCHANGED <<attention_based_scheduling, engine_isolates, isolates, current_index,
                 attn_ops, rr_log, rr_start, loop_vars, teardown, bridge_vars>>

\* reasoning->GetSTI(), the argument of the call: sti_ is a plain double, read without
\* a lock while the runner thread is inside Run().  The embedder executes the statement
\* once.
ExtRead(id) ==
  /\ ext.pc = "idle"
  /\ engine_isolates[id] # Null
  /\ ext' = [pc |-> "read", context |-> engine_isolates[id],
             read |-> heap[engine_isolates[id]].sti, ops |-> attn_ops]
  /\ last' = Call("GetSTI", engine_isolates[id], TRUE)
  /\ UNCHANGED heap
  /\ ExtFrame

\* reasoning->SetSTI(the value read + 20), through the pointer CreateIsolate returned;
\* a write through a pointer left dangling is not observed
ExtWrite ==
  /\ ext.pc = "read"
  /\ ext' = [ext EXCEPT !.pc = "done"]
  /\ heap' = IF Live(ext.context)
               THEN [heap EXCEPT ![ext.context].sti = ext.read + Boost * Scale]
               ELSE heap
  /\ last' = Call("SetSTI", ext.context, Live(ext.context))
  /\ ExtFrame

\* the embedder adjusting attention while the timer of the runner thread ticks
NextRace ==
  \/ \E id \in TwoIds, ok \in BOOLEAN : CreateIsolate(id, ok)
  \/ \E id \in TwoIds : ExtRead(id)
  \/ ExtWrite
  \/ OnCognitiveTick

SpecRace == InitAttention /\ [][NextRace]_vars

\* the scheduler's operations over contexts whose lti the embedder writes, in both modes
NextLti ==
  \/ \E id \in TwoIds, ok \in BOOLEAN : CreateIsolate(id, ok)
  \/ \E id \in TwoIds : DestroyIsolate(id)
  \/ \E id \in TwoIds, lti \in LtiInputs : SetLTI(id, lti)
  \/ SelectNextIsolate
  \/ DecayAttention
  \/ UpdateAttention

SpecLti == Init /\ [][NextLti]_vars

\* the steps of the thread inside Run(), the timer not expiring (OnCognitiveTick, which
\* writes only the contexts' sti, is a step of NextLifecycle and NextAttention)
LoopThread ==
  \/ EnterLoop
  \/ LoopTop
  \/ TimerPending
  \/ OnIdle
  \/ OnPrepare
  \/ Poll
  \/ OnCheck

\* the embedder initializes its engine once, before anything else is done with it
EmbedderInitialize == loop = NoLoop /\ Initialize

\* the control loop of an engine initialized once, over contexts that are created and
\* destroyed meanwhile, Stop() called from any thread at any point
NextLoop ==
  \/ EmbedderInitialize
  \/ Run
  \/ Stop
  \/ StopLoop
  \/ LoopThread
  \/ \E id \in TwoIds, ok \in BOOLEAN : InterleavedCreateIsolate(id, ok)
  \/ \E id \in TwoIds : InterleavedDestroyIsolate(id)

\* both threads are scheduled: the loop thread takes its next step, a Stop() under way
\* completes
SpecLoop == Init /\ [][NextLoop]_vars /\ WF_vars(LoopThread) /\ WF_vars(StopLoop)

\* ------------------------------------ the loop running without end over a fixed set
\* engine.CreateIsolate(id) before the loop runs, each id once, as the embedder does
SetupCreateIsolate(id, ok) ==
  /\ pc = "out"
  /\ engine_isolates[id] = Null
  /\ CreateIsolate(id, ok)

\* GetMemoryUsage() of contexts that run the same script: the same for each, whatever
\* it is at the time of the tick
SameMemory(list) == {[i \in Positions(list) |-> m] : m \in MemValues}

\* the timer has expired: OnCognitiveTick, however many ticks came before (attn_ops
\* counts them up to MaxAttnOps)
TimerTick ==
  /\ pc = "timers"
  /\ handles.timer
  /\ \E mem \in SameMemory(isolates) :
       heap' = UpdateFrom(DecayFrom(heap, isolates, 1), isolates, mem, 1)
  /\ attn_ops' = Min(attn_ops + 1, MaxAttnOps)
  /\ last' = Call("OnCognitiveTick", Null, TRUE)
  /\ snap' = NoSnap
  /\ UNCHANGED <<attention_based_scheduling, engine_isolates, isolates, current_index,
                 rr_log, rr_start>>
  /\ pc' \in AfterHooks("timer", "idle")
  /\ HookFrame
  /\ UNCHANGED <<current_isolate, handles, registered, slice, idle_runs>>

\* Run() over the contexts created before it, nothing stopping the loop and no call from
\* outside it
NextFair ==
  \/ EmbedderInitialize
  \/ \E id \in TwoIds, ok \in BOOLEAN : SetupCreateIsolate(id, ok)
  \/ Run
  \/ LoopThread
  \/ TimerTick

\* the loop thread takes its next step, and the timer (it repeats every
\* cognitive_tick_ms) expires again and again
SpecFair ==
  InitAttention /\ [][NextFair]_vars /\ WF_vars(LoopThread) /\ SF_vars(TimerTick)

\* the engine's lifecycle and the phases of its loop, timer included, no context created
NextLifecycle ==
  \/ Initialize
  \/ Start
  \/ Run
  \/ Stop
  \/ StopLoop
  \/ EnterLoop
  \/ LoopTop
  \/ TimerExpired
  \/ TimerPending
  \/ OnIdle
  \/ OnPrepare
  \/ Poll
  \/ OnCheck

SpecLifecycle == Init /\ [][NextLifecycle]_vars

\* DestroyIsolate statement by statement, between the other calls of one thread
NextTeardown ==
  \/ \E id \in TwoIds, ok \in BOOLEAN : CallCreateIsolate(id, ok)
  \/ \E id \in TwoIds : CallRegisterIsolate(id)
  \/ CallSelectNextIsolate
  \/ \E id \in Ids : BeginDestroy(id)
  \/ DestroyStep

SpecTeardown == Init /\ [][NextTeardown]_vars

\* the binding layer: the engine and its contexts reached by id from the host language
NextBridge ==
  \/ CreateEngine
  \/ DestroyEngine
  \/ \E id \in TwoIds, ok \in BOOLEAN : BridgeCreateIsolate(id, ok)
  \/ \E id \in Ids : BridgeDestroyIsolate(id)
  \/ \E id \in Ids, sti \in StiInputs : BridgeSetSTI(id, sti)
  \/ \E id \in Ids, lti \in LtiInputs : BridgeSetLTI(id, lti)
  \/ \E id \in Ids : BridgeGetSTI(id)
  \/ \E id \in Ids : BridgeGetLTI(id)
  \/ \E id \in Ids : BridgeGetMemoryUsage(id)

\* CreateEngine leaves attention_based_scheduling at its default
SpecBridge == InitAttention /\ [][NextBridge]_vars

\* ------------------------------------------------------------------ claims
AllLive(list) == \A i \in Positions(list) : Live(list[i])
Distinct(list) == \A i, j \in Positions(list) : i # j => list[i] # list[j]
StiOf(p) == heap[p].sti
Selected == last.op = "SelectNextIsolate"

\* C1: in attention mode, SelectNextIsolate on a non-empty candidate set (of live
\* contexts) returns a candidate whose sti is maximal over the set, the earliest
\* registered one among those of maximal sti.
C1_SelectsEarliestMaximal ==
  (attention_based_scheduling /\ Selected /\ isolates # <<>> /\ AllLive(isolates)) =>
    \E i \in Positions(isolates) :
      /\ last.ret = isolates[i]
      /\ \A j \in Positions(isolates) : StiOf(isolates[j]) <= StiOf(isolates[i])
      /\ \A j \in 1..(i - 1) : StiOf(isolates[j]) < StiOf(isolates[i])

\* C2: SelectNextIsolate returns nullptr if and only if the candidate set is empty,
\* in both modes and for every sti the (live) candidates hold.
C2_NullIffEmpty ==
  (Selected /\ AllLive(isolates)) => (last.ret = Null <=> isolates = <<>>)

\* the candidate vector holds live contexts A, B, C, registered in that order
RegisteredABC ==
  /\ Len(isolates) = 3
  /\ AllLive(isolates)
  /\ <<heap[isolates[1]].id, heap[isolates[2]].id, heap[isolates[3]].id>> = <<"A", "B", "C">>

\* C3: in round-robin mode, on a scheduler whose cursor never moved, with A, B, C
\* registered in that order, the successive SelectNextIsolate calls return A, B, C, A.
C3_FreshRoundRobinOrder ==
  (~attention_based_scheduling /\ rr_start = -1 /\ RegisteredABC) =>
    \A k \in Positions(rr_log) : rr_log[k] = isolates[((k - 1) % 3) + 1]

\* the last n results of the recorded run of selections
LastResults(n) == [k \in 1..n |-> rr_log[Len(rr_log) - n + k]]

\* C4: in round-robin mode with a fixed candidate set of n >= 1 (distinct) contexts,
\* any n consecutive SelectNextIsolate calls, from any cursor position, return every
\* candidate exactly once.
C4_RoundRobinVisitsEachOnce ==
  (~attention_based_scheduling /\ isolates # <<>> /\ Distinct(isolates)
     /\ Len(rr_log) >= Len(isolates)) =>
    \A i \in Positions(isolates) :
      Cardinality({k \in Positions(isolates) :
                     LastResults(Len(isolates))[k] = isolates[i]}) = 1

\* three distinct candidates, a full run of selections that began at a cursor past 0
C4_Witness ==
  /\ ~attention_based_scheduling
  /\ Len(isolates) = 3
  /\ Distinct(isolates)
  /\ Len(rr_log) = MaxLog
  /\ rr_start >= 1

AboveFloor == \A i \in Positions(isolates) :
  Live(isolates[i]) => StiOf(isolates[i]) >= StiFloor * Scale

\* C5: immediately after any DecayAttention call every registered (live) context has
\* sti >= 1.0, whatever its sti was before the call.
C5_FloorAfterDecay == last.op = "DecayAttention" => AboveFloor

\* a decay has just clamped a registered context to the floor
C5_Witness ==
  /\ last.op = "DecayAttention"
  /\ \E i \in Positions(isolates) : Live(isolates[i]) /\ StiOf(isolates[i]) = StiFloor * Scale

\* C6: after every decay or adjustment step, in particular at the end of every timer
\* tick (DecayAttention then UpdateAttention), every registered context has sti >= 1.0.
C6_FloorAfterTick == last.op = "OnCognitiveTick" => AboveFloor

\* C7: CreateIsolate(id) with an id that is already registered returns no context and
\* leaves the registry, the candidate set and the existing context unchanged.
C7_DuplicateCreateFails ==
  [][\A id \in Ids :
       (last'.op = "CreateIsolate" /\ engine_isolates[id] # Null /\ CreateIsolate(id, TRUE)) =>
         (last'.ret = Null /\ UNCHANGED <<heap, engine_isolates, isolates>>)]_vars

\* C8: the candidate set never contains two entries with the same id.
C8_NoDuplicateIds ==
  \A i, j \in Positions(isolates) : i # j => heap[isolates[i]].id # heap[isolates[j]].id

\* no entry of the vector can compare equal to id: each is a live context with another id
NoEntryWithId(list, id) ==
  \A i \in Positions(list) : Live(list[i]) /\ heap[list[i]].id # id

\* C9: DestroyIsolate(id) for an id not in the registry and UnregisterIsolate(id) for an
\* id no candidate carries change nothing: the registry, the candidate vector (so
\* GetIsolateCount), the cursor and every context's attention stay as they were; and after
\* DestroyIsolate(id) the id is not in the registry, so a second DestroyIsolate(id) is
\* such a call.
C9_UnknownIdIsNoOp ==
  [][\A id \in Ids :
       /\ (last'.op = "DestroyIsolate" /\ engine_isolates[id] = Null /\ DestroyIsolate(id))
            => UNCHANGED prog
       /\ (last'.op = "UnregisterIsolate" /\ NoEntryWithId(isolates, id)
             /\ UnregisterIsolate(id)) => UNCHANGED prog
       /\ (last'.op = "DestroyIsolate" /\ DestroyIsolate(id)) => engine_isolates'[id] = Null]_vars

\* a DestroyIsolate that found no context has just returned, with candidates registered,
\* the cursor moved and some attention value written
C9_Witness ==
  /\ last.op = "DestroyIsolate"
  /\ ~last.hit
  /\ isolates # <<>>
  /\ current_index > 0
  /\ \E p \in Ptrs : Live(p) /\ StiOf(p) # DefaultSti * Scale

RECURSIVE RoundRobinRun(_, _, _)
\* the results of k successive round-robin SelectNextIsolate calls
RoundRobinRun(list, index, k) ==
  IF k = 0 THEN <<>>
  ELSE IF list = <<>> THEN <<Null>> \o RoundRobinRun(list, index, k - 1)
  ELSE <<SelectRoundRobin(list, index)>>
         \o RoundRobinRun(list, NextIndex(index, Len(list)), k - 1)

\* the results an attention-mode SelectNextIsolate call can give
AttentionResults(list) == {SelectAttention(list, v) : v \in StiReads(list)}

\* an UnregisterIsolate(ctx.id) has just returned, called right after ctx was registered
Undone == last.op = "UnregisterIsolate" /\ last.ret # Null

\* GetIsolateCount and the results of the SelectNextIsolate calls to come are those of
\* the scheduler as it was before the registration
AsBeforeRegistration ==
  /\ Len(isolates) = Len(snap.isolates)
  /\ RoundRobinRun(isolates, current_index, MaxLog)
       = RoundRobinRun(snap.isolates, snap.index, MaxLog)
  /\ AttentionResults(isolates) = AttentionResults(snap.isolates)

\* C10 as stated: from any scheduler state, RegisterIsolate(ctx) immediately followed by
\* UnregisterIsolate(ctx.id) leaves GetIsolateCount and the results of the subsequent
\* SelectNextIsolate calls as if ctx had never been registered.
C10_RegisterUnregisterAnyState == Undone => AsBeforeRegistration

\* C10 amended: the same, from a scheduler state in which no candidate carries ctx's id
\* (every candidate is a live context with another id).
C10_RegisterUnregisterFreshId ==
  (Undone /\ NoEntryWithId(snap.isolates, last.ret[1])) => AsBeforeRegistration

\* the pair has run on a non-empty candidate vector with the cursor moved
C10_Witness ==
  /\ Undone
  /\ last.hit
  /\ NoEntryWithId(snap.isolates, last.ret[1])
  /\ snap.isolates # <<>>
  /\ snap.index > 0

\* C12: each timer tick applies DecayAttention to every candidate and then
\* UpdateAttention to every candidate, each once: whatever memory the contexts report,
\* a (live) candidate's sti after the tick is its sti before, decayed once and then
\* adjusted once.
C12_TickDecaysThenUpdatesOnce ==
  [][last'.op = "OnCognitiveTick" =>
       \A mem \in [Positions(isolates) -> MemValues] :
         heap' = UpdateFrom(DecayFrom(heap, isolates, 1), isolates, mem, 1) =>
           \A i \in Positions(isolates) :
             Live(isolates[i]) =>
               heap'[isolates[i]].sti = Adjusted(Decayed(heap[isolates[i]].sti), mem[i])]_vars

\* the slice of the iteration in progress has had no checkpoint before the check phase
\* and exactly one after it
Settled ==
  slice.ran # Null => slice.checkpoints = (IF pc \in {"poll", "check"} THEN 0 ELSE 1)

\* C11: in every loop iteration the ExecuteTasks of the prepare phase is followed by
\* exactly one PerformMicrotaskCheckpoint on the same context in the check phase, before
\* the next SelectNextIsolate (and before Run() returns), and no checkpoint is made on a
\* context that did not run a slice in that iteration.
C11_RunThenSettle == ~slice.stray /\ Settled

\* C13: DestroyIsolate(id) removes the context from the candidate vector before it
\* releases the environment and the isolate and before it erases the registry entry: at
\* no statement of the call, nor after it, is a context whose environment or isolate has
\* been released an entry of the candidate vector.
C13_UnregisteredBeforeTeardown ==
  /\ (teardown.env_freed \/ teardown.disposed) =>
        \A i \in Positions(isolates) : isolates[i] # teardown.context
  /\ (last.op = "DestroyIsolate" /\ last.hit /\ BetweenCalls) =>
        \A i \in Positions(isolates) : isolates[i] # last.ret

\* the environment and the isolate of a context have been released, the registry entry is
\* still to be erased, and another candidate remains in the vector
C13_Witness ==
  /\ teardown.env_freed
  /\ teardown.disposed
  /\ teardown.step = Len(DestroySteps)
  /\ isolates # <<>>

\* C14: Stop() changes only the running flag and the loop's stop request: the registry,
\* the candidate vector, the cursor, the current-context pointer and every context's sti
\* and lti are after each of its statements what they were before.
C14_StopFrame ==
  [][(last'.op = "Stop" /\ (Stop \/ StopLoop)) =>
       UNCHANGED <<engine_isolates, isolates, current_index, current_isolate, heap>>]_vars

\* Stop() has returned, called during an iteration whose slice had run
C14_Witness ==
  /\ last.op = "Stop"
  /\ stop_pc = "out"
  /\ stop_flag
  /\ pc = "check"
  /\ current_isolate # Null
  /\ Live(current_isolate)

\* C15: when Stop() is called while Run() is executing an iteration, that iteration runs to
\* completion (its slice is checkpointed), no further iteration (so no further prepare
\* phase) starts, and Run() eventually returns.
C15_StopEndsRun ==
  /\ [](cancel # "overrun")
  /\ []((cancel = "requested" \/ pc = "out") => Settled)
  /\ ((cancel = "requested") ~> (pc = "out"))

\* C16: while the engine is uninitialized (loop_ is nullptr), Start(), Run() and Stop()
\* neither set the running flag nor drive the loop.
C16_UninitializedStays == loop = NoLoop => (~running /\ pc \in {"out", "started"})

\* C18: once OnIdle has run the idle handle is stopped, in no later iteration does the
\* idle phase run OnIdle again, and the poll of an iteration may block unless a stop is
\* requested.
C18_IdleSelfDisables ==
  idle_runs >= 1 =>
    /\ ~handles.idle
    /\ idle_runs = 1
    /\ (last.op = "Poll" /\ ~stop_flag) => last.hit

\* C19 as stated: for every registered (live) context and every prior sti, the sti after
\* a DecayAttention call is less than or equal to the sti before it.
C19_DecayNeverIncreases ==
  [][last'.op = "DecayAttention" =>
       \A i \in Positions(isolates) :
         Live(isolates[i]) => heap'[isolates[i]].sti <= heap[isolates[i]].sti]_vars

\* C19 amended: the same, for every prior sti at or above the floor 1.0.
C19_DecayNeverIncreasesAboveFloor ==
  [][last'.op = "DecayAttention" =>
       \A i \in Positions(isolates) :
         (Live(isolates[i]) /\ heap[isolates[i]].sti >= StiFloor * Scale) =>
           heap'[isolates[i]].sti <= heap[isolates[i]].sti]_vars

\* a decay has just taken a registered context from the default 50.0 to 49.5
C19_Witness ==
  /\ last.op = "DecayAttention"
  /\ \E i \in Positions(isolates) :
       /\ Live(isolates[i])
       /\ StiOf(isolates[i]) = MulPct(DefaultSti * Scale, decay_rate)
       /\ StiOf(isolates[i]) < DefaultSti * Scale

\* new is half of prior, to the nearest unit
Halved(prior, new) == 2 * new - prior \in {-1, 0, 1}

\* C20: for every registered (live) context, every prior sti and every reported memory
\* usage, one UpdateAttention call yields prior/2 <= new <= prior; memory usage 0 leaves
\* sti unchanged and memory usage of 100 MiB or more halves it.
C20_UpdateBounds ==
  [][last'.op = "UpdateAttention" =>
       \A mem \in [Positions(isolates) -> MemValues] :
         heap' = UpdateFrom(heap, isolates, mem, 1) =>
           \A i \in Positions(isolates) :
             Live(isolates[i]) =>
               /\ 2 * heap'[isolates[i]].sti >= heap[isolates[i]].sti
               /\ heap'[isolates[i]].sti <= heap[isolates[i]].sti
               /\ mem[i] = 0 => heap'[isolates[i]].sti = heap[isolates[i]].sti
               /\ mem[i] >= MemoryReference =>
                    Halved(heap[isolates[i]].sti, heap'[isolates[i]].sti)]_vars

\* C17: with an engine in place, getSTI, getLTI and getMemoryUsage for an id that is not
\* registered return zero and raise nothing, and setSTI and setLTI for such an id raise
\* nothing and leave the registry and every context's sti and lti unchanged.
C17_UnknownIdIsNeutral ==
  /\ []((bridge_engine /\ last.op \in {"GetSTI", "GetLTI", "GetMemoryUsage"} /\ ~last.hit) =>
          result = Returned(0))
  /\ [][\A id \in Ids :
          (bridge_engine /\ last'.op \in {"SetSTI", "SetLTI"} /\ GetIsolate(id) = Null
             /\ \E v \in StiInputs \cup LtiInputs : BridgeSetSTI(id, v) \/ BridgeSetLTI(id, v)) =>
            (~result'.raised /\ UNCHANGED <<heap, engine_isolates, isolates>>)]_vars

\* getSTI for an id that is not registered has returned, while a registered context holds
\* an sti written through setSTI
C17_Witness ==
  /\ bridge_engine
  /\ last.op = "GetSTI"
  /\ ~last.hit
  /\ \E p \in Ptrs : Live(p) /\ StiOf(p) # DefaultSti * Scale

\* the registry owns the context at p
Owned(p) == Live(p) /\ \E id \in Ids : engine_isolates[id] = p

\* C21: the engine never dereferences a destroyed context: in every reachable state the
\* current-context pointer the check phase is about to use and every pointer of the
\* candidate vector (used by select, decay and update) refer to a context the registry
\* owns, whatever CreateIsolate and DestroyIsolate calls came between the loop phases.
C21_NoDestroyedContextUsed ==
  /\ (pc = "check" /\ current_isolate # Null) => Owned(current_isolate)
  /\ \A i \in Positions(isolates) : Owned(isolates[i])

\* C23: in round-robin mode, after any interleaving of registrations, unregistrations and
\* selections (unregistrations that shrink the vector below the cursor included),
\* SelectNextIsolate on a non-empty vector reads the vector at an index below its size and
\* returns an entry of the vector.
C23_CursorInBounds ==
  (~attention_based_scheduling /\ Selected /\ isolates # <<>>) =>
     /\ current_index < Len(isolates)
     /\ last.ret = isolates[current_index + 1]
     /\ \E i \in Positions(isolates) : isolates[i] = last.ret

\* a selection has been made right after the vector shrank to or below the cursor
C23_Witness ==
  /\ ~attention_based_scheduling
  /\ Selected
  /\ isolates # <<>>
  /\ Len(rr_log) = 1
  /\ rr_start >= Len(isolates)

C22_StoppedAfterBoth == (overlap /\ pc = "out" /\ stop_pc = "out") => ~running

\* C25: Initialize() is idempotent: no hook is ever entered into the loop more than once,
\* and a call of Initialize() on an engine that is initialized already changes neither
\* the loop, nor which handles are started, nor how often each is registered.
C25_InitializeIdempotent ==
  /\ [](\A h \in DOMAIN registered : registered[h] <= 1)
  /\ [][(last'.op = "Initialize" /\ loop # NoLoop) =>
         UNCHANGED <<loop, handles, registered>>]_vars

\* C27: when exactly one timer tick (DecayAttention, then UpdateAttention) falls between
\* the GetSTI and the SetSTI of an external SetSTI(GetSTI() + d) on a context, the sti of
\* the context afterwards is what one of the two serial orders gives: the tick applied to
\* the value read and d added, or d added and the tick applied.
C27_NoLostUpdate ==
  (ext.pc = "done" /\ last.op = "SetSTI" /\ last.hit /\ attn_ops = ext.ops + 1
     /\ \E i \in Positions(isolates) : isolates[i] = ext.context) =>
    \E mem \in MemValues :
      heap[ext.context].sti \in {Adjusted(Decayed(ext.read), mem) + Boost * Scale,
                                 Adjusted(Decayed(ext.read + Boost * Scale), mem)}

\* C24: in attention mode, once Run() drives the loop over two or more registered
\* contexts, the timer ticking again and again and nothing but the loop writing sti,
\* every registered context is eventually the one a prepare phase selects.
C24_EveryContextSelected ==
  \A p \in Ptrs :
    (pc = "top" /\ Len(isolates) >= 2 /\ \E i \in Positions(isolates) : isolates[i] = p)
      ~> (pc = "poll" /\ current_isolate = p)

====
